---- MODULE Spec2Model ----
(***************************************************************************)
(* A client of the Uniswap wrapper (BaseUniswap with the UniswapV1         *)
(* protocol class): the fee-tier validation, the four public operations    *)
(* (get_price_input, get_price_output, make_trade, make_trade_output), the *)
(* balance-checking wrappers, the V1 swap builders with their price        *)
(* arithmetic, and the nonce bookkeeping of _build_and_send_tx.            *)
(*                                                                         *)
(* One action is one call of a public operation by the caller.  Every      *)
(* read of the chain made by the handler (a balance, an on-chain price, a  *)
(* pool reserve, the transaction count, the clock) is an input of the      *)
(* action, drawn from a small set at the place where the code reads it;    *)
(* two reads of the same quantity in one handler are two inputs.           *)
(* The liquidity operations, the token metadata lookup and the clock are   *)
(* modelled the same way.  SpecSequential and SpecInterleaved split a      *)
(* submission at its chain accesses (_get_tx_params, the steps before the  *)
(* send, send_raw_transaction) for one caller and for two.                 *)
(*                                                                         *)
(* Encodings.  Optional[int] is <<>> (None) or <<v>>.  A slippage float s  *)
(* is the integer number of percent 100*s.  A Python float that holds a    *)
(* quotient n/d is the pair <<n, d>>, kept exact; int() of it truncates    *)
(* toward zero, as Python's int() does.                                    *)
(***************************************************************************)
EXTENDS Integers, Sequences, FiniteSets, TLC

VARIABLES
    version,      \* self._version: the protocol version of the client
    last_nonce,   \* self.last_nonce
    pc,           \* "idle": the caller is between calls; "done": a call has ended
    call,         \* the operation called and its arguments
    fee,          \* what FeeTier.create gave in this call
    result,       \* how the call ended: a return value or the exception raised
    trace,        \* the reads of the chain and the submissions made, in order
    tx,           \* the transaction handed to send_raw_transaction, if any
    preflight,    \* the wrapper's locals: balance read, cost, amount_in_max
    reserves,     \* the pool reserves the V1 price arithmetic read
    time,         \* the clock: what time.time() returns, in whole seconds
    inflight,     \* per trade request taken step by step: its position and the
                  \* tx_params it holds (used where a call is split at its
                  \* chain accesses; constant where a call is one step)
    sends         \* the calls of send_raw_transaction made, in order: the nonce
                  \* of the transaction and whether the call returned (same use)

vars == <<version, last_nonce, pc, call, fee, result, trace, tx, preflight, reserves, time,
          inflight, sends>>

-----------------------------------------------------------------------------
(* Bounds of the model *)

MaxQty == 3
MaxNonce == 2
MaxTime == 1
MaxTokenCount == 2

(* Program constants *)

TIER_100 == 100
TIER_500 == 500
TIER_3000 == 3000
TIER_10000 == 10000
default_slippage == 1
DeadlineSeconds == 600

ETH_ADDRESS == "ETH"
address == "ME"

None == <<>>
Some(v) == <<v>>
NoRecipient == "None"

Versions == {1, 2, 3}
Tokens == {"A", "B"}
Addresses == {ETH_ADDRESS} \cup Tokens
Qtys == 1..MaxQty
FeeInts == {0 - 1, 0, 1, 100, 500, 3000, 3001, 10000}
FeeArgs == {None} \cup {Some(v) : v \in FeeInts}
SlippageArgs == {None, Some(0), Some(50)}
Recipients == {NoRecipient, "R"}
Balances == {2, 1009, 1010, 1011}
Quotes == {7, 1000}
ReserveVals == {2, 10}
TxCounts == 0..MaxNonce
Decimals == {18}
ContractErrors == {"ContractLogicError"}
Clock == {time}

-----------------------------------------------------------------------------
(* Outcomes *)

Ok(v) == [exc |-> "", val |-> v]
Err(e) == [exc |-> e, val |-> 0]

Return(v, w) == [kind |-> "return", value |-> v, value2 |-> w, had |-> 0, needed |-> 0]
Exc(e) == [kind |-> e, value |-> 0, value2 |-> 0, had |-> 0, needed |-> 0]
InsufficientBalance(had, needed) ==
    [kind |-> "InsufficientBalance", value |-> 0, value2 |-> 0, had |-> had, needed |-> needed]

NoResult == [kind |-> "none", value |-> 0, value2 |-> 0, had |-> 0, needed |-> 0]
NoFee == [exc |-> "unset", val |-> 0]
NoCall == [op |-> "none", input_token |-> "", output_token |-> "", qty |-> 0,
           recipient |-> NoRecipient, fee |-> None, slippage |-> None,
           fee_on_transfer |-> FALSE]
NoTx == [fn |-> "none", qty |-> 0, limit |-> None, eth_limit |-> None, deadline |-> 0,
         recipient |-> NoRecipient, token |-> NoRecipient, value |-> 0, nonce |-> 0]
Requests == {1, 2}
NoRequests == [r \in Requests |-> [pc |-> "idle", nonce |-> 0]]

NoPreflight == [balance |-> None, cost |-> None, amount_in_max |-> None]
NoReserves == [input_reserve_b |-> None, output_reserve_b |-> None,
               input_reserve_a |-> None, output_reserve_a |-> None]

-----------------------------------------------------------------------------
(* dto/enums.py *)

FeeTierValues == {TIER_100, TIER_500, TIER_3000, TIER_10000}

(* FeeTier.create without the check of lines 33-39 *)
FeeTier_create_defaulting(value, ver) ==
    LET v == IF value = None \/ value = Some(0) THEN TIER_3000 ELSE value[1]
    IN  IF ver < 3 /\ v # TIER_3000
        THEN Err("InvalidFeeTier")
        ELSE IF v \in FeeTierValues THEN Ok(v) ELSE Err("InvalidFeeTier")

FeeTier_create(value, ver) ==
    IF ver = 3 /\ value = None
    THEN Err("ExplicitFeeTierRequred")
    ELSE LET v == IF value = None \/ value = Some(0) THEN TIER_3000 ELSE value[1]
         IN  IF ver < 3 /\ v # TIER_3000
             THEN Err("InvalidFeeTier")
             ELSE IF v \in FeeTierValues THEN Ok(v) ELSE Err("InvalidFeeTier")

-----------------------------------------------------------------------------
(* Python arithmetic.  A float quotient n/d is the pair <<n, d>> with d # 0. *)

TruncDiv(n, d) ==
    LET nn == IF d < 0 THEN 0 - n ELSE n
        dd == IF d < 0 THEN 0 - d ELSE d
    IN  IF nn >= 0 THEN nn \div dd ELSE 0 - ((0 - nn) \div dd)

int(x) == TruncDiv(x[1], x[2])
plus_one(x) == <<x[1] + x[2], x[2]>>
minus_one(x) == <<x[1] - x[2], x[2]>>
Max(a, b) == IF a >= b THEN a ELSE b

Ev(e, a) == [ev |-> e, of |-> a]

(* The trace of a call of a price hook whose outcome was o: the call, and the *)
(* read of the price when the hook made one                                  *)
Enter(tr, name) == tr \o <<Ev("call", name)>>

Hooked(name, token, o) ==
    <<Ev("call", name)>> \o (IF o.exc = "" THEN <<Ev("price", token)>> ELSE <<>>)
Read(token, side, v) == <<token, side, v>>

-----------------------------------------------------------------------------
(* protocol/base.py: the limit of an exact-output trade,                     *)
(* int((1 + slippage) * cost), for an integer cost and for a float cost      *)

(* amount_in_max rounded up instead of truncated *)
amount_in_max_rounded_up(slippage, cost) == ((100 + slippage) * cost + 99) \div 100

amount_in_max_of(slippage, cost) == TruncDiv((100 + slippage) * cost, 100)

slipped(slippage, x) == <<(100 + slippage) * x[1], 100 * x[2]>>

(* protocol/v1.py: int(1.2 * x) *)

(* a margin of 50% instead of 20% *)
times_1_5(x) == <<15 * x[1], 10 * x[2]>>

times_1_2(x) == <<12 * x[1], 10 * x[2]>>

-----------------------------------------------------------------------------
(* protocol/v1.py: the two single-leg quotients, as floats.  The divisor of   *)
(* the exact-output quotient must not be 0.                                  *)

exact_input_leg(inputAmount, inputReserve, outputReserve) ==
    <<inputAmount * outputReserve * 997, inputReserve * 1000 + inputAmount * 997>>

(* the exact-output quotient without its + 1 *)
exact_output_leg_uncorrected(outputAmount, inputReserve, outputReserve) ==
    <<outputAmount * inputReserve * 1000, (outputReserve - outputAmount) * 997>>

(* the exact-output quotient truncated before its + 1 *)
exact_output_leg_floored(outputAmount, inputReserve, outputReserve) ==
    <<((outputAmount * inputReserve * 1000)
          \div ((outputReserve - outputAmount) * 997)) + 1, 1>>

exact_output_leg(outputAmount, inputReserve, outputReserve) ==
    plus_one(<<outputAmount * inputReserve * 1000, (outputReserve - outputAmount) * 997>>)

(* protocol/v1.py: the price arithmetic.  Each operator takes the values the *)
(* reserve reads returned, in the order the code reads them, and gives the   *)
(* outcome, the reads that were made before it, and their trace.             *)

CalcOk(v, w, rs, tr) == [exc |-> "", val |-> v, val2 |-> w, reserves |-> rs, tr |-> tr]
CalcErr(e, rs, tr) == [exc |-> e, val |-> 0, val2 |-> 0, reserves |-> rs, tr |-> tr]

_calculate_max_input_token(input_token, qty, output_token, r) ==
    LET output_amount_b == qty
        input_reserve_b == r[1]      \* get_ex_eth_balance(output_token)
        output_reserve_b == r[2]     \* get_ex_token_balance(output_token)
        denominator_b == (output_reserve_b - output_amount_b) * 997
        rs_b == [NoReserves EXCEPT
                   !.input_reserve_b = Read(output_token, "eth", r[1]),
                   !.output_reserve_b = Read(output_token, "token", r[2])]
        tr_b == <<Ev("get_ex_eth_balance", output_token),
                  Ev("get_ex_token_balance", output_token)>>
    IN  IF denominator_b = 0
        THEN CalcErr("ZeroDivisionError", rs_b, tr_b)
        ELSE
        LET input_amount_b ==
                exact_output_leg(output_amount_b, input_reserve_b, output_reserve_b)
            output_amount_a == input_amount_b
            input_reserve_a == r[3]  \* get_ex_token_balance(input_token)
            output_reserve_a == r[4] \* get_ex_eth_balance(input_token)
            \* numerator_a = output_amount_a * input_reserve_a * 1000 and
            \* denominator_a = (output_reserve_a - output_amount_a) * 997 are
            \* floats over the same divisor, which cancels in their quotient
            numerator_a == output_amount_a[1] * input_reserve_a * 1000
            denominator_a == (output_reserve_a * output_amount_a[2] - output_amount_a[1]) * 997
            rs_a == [rs_b EXCEPT
                       !.input_reserve_a = Read(input_token, "token", r[3]),
                       !.output_reserve_a = Read(input_token, "eth", r[4])]
            tr_a == tr_b \o <<Ev("get_ex_token_balance", input_token),
                              Ev("get_ex_eth_balance", input_token)>>
        IN  IF denominator_a = 0
            THEN CalcErr("ZeroDivisionError", rs_a, tr_a)
            ELSE LET input_amount_a == minus_one(<<numerator_a, denominator_a>>)
                 IN  CalcOk(int(input_amount_a), int(times_1_2(input_amount_b)), rs_a, tr_a)

_calculate_max_output_token(output_token, qty, input_token, r) ==
    LET inputAmountA == qty
        inputReserveA == r[1]        \* get_ex_token_balance(input_token)
        outputReserveA == r[2]       \* get_ex_eth_balance(input_token)
        denominatorA == inputReserveA * 1000 + inputAmountA * 997
        rs_a == [NoReserves EXCEPT
                   !.input_reserve_a = Read(input_token, "token", r[1]),
                   !.output_reserve_a = Read(input_token, "eth", r[2])]
        tr_a == <<Ev("get_ex_token_balance", input_token),
                  Ev("get_ex_eth_balance", input_token)>>
    IN  IF denominatorA = 0
        THEN CalcErr("ZeroDivisionError", rs_a, tr_a)
        ELSE
        LET outputAmountA == exact_input_leg(inputAmountA, inputReserveA, outputReserveA)
            inputAmountB == outputAmountA
            inputReserveB == r[3]    \* get_ex_token_balance(output_token)
            outputReserveB == r[4]   \* get_ex_eth_balance(output_token)
            \* numeratorB = inputAmountB * outputReserveB * 997 and
            \* denominatorB = inputReserveB * 1000 + inputAmountB * 997 are
            \* floats over the same divisor, which cancels in their quotient
            numeratorB == inputAmountB[1] * outputReserveB * 997
            denominatorB == inputReserveB * 1000 * inputAmountB[2] + inputAmountB[1] * 997
            rs_b == [rs_a EXCEPT
                       !.input_reserve_b = Read(output_token, "token", r[3]),
                       !.output_reserve_b = Read(output_token, "eth", r[4])]
            tr_b == tr_a \o <<Ev("get_ex_token_balance", output_token),
                              Ev("get_ex_eth_balance", output_token)>>
        IN  IF denominatorB = 0
            THEN CalcErr("ZeroDivisionError", rs_b, tr_b)
            ELSE LET outputAmountB == <<numeratorB, denominatorB>>
                 IN  CalcOk(int(outputAmountB), int(times_1_2(outputAmountA)), rs_b, tr_b)

(* _token_to_eth_swap_output, lines 322-330: max_tokens from the reserves *)
max_tokens_of(qty, slippage, r) ==
    LET outputAmount == qty
        inputReserve == r[1]         \* get_ex_token_balance(input_token)
        outputReserve == r[2]        \* get_ex_eth_balance(input_token)
        denominator == (outputReserve - outputAmount) * 997
    IN  IF denominator = 0
        THEN Err("ZeroDivisionError")
        ELSE LET inputAmount == exact_output_leg(outputAmount, inputReserve, outputReserve)
             IN  Ok(int(slipped(slippage, inputAmount)))

-----------------------------------------------------------------------------
(* How a handler ends: it fixes the outcome of the call. *)

Finish(res, tr, t, nonce, pf, rs) ==
    /\ result' = res
    /\ trace' = tr
    /\ tx' = t
    /\ last_nonce' = nonce
    /\ preflight' = pf
    /\ reserves' = rs

Raise(e, tr, pf, rs) == Finish(Exc(e), tr, NoTx, last_nonce, pf, rs)

(* uniswap/decorators.py is not among the sources: the events check_approval *)
(* adds before the decorated operation runs.                                 *)
check_approval == <<>>

-----------------------------------------------------------------------------
(* protocol/base.py: Tx Utils *)

(* a deadline of 10 seconds: the minutes not converted *)
_deadline_unconverted(now) == now + 10

_deadline(now) == now + DeadlineSeconds

(* _get_tx_params taking the chain's transaction count alone *)
_get_tx_params_from_chain(value, count) == [value |-> value, nonce |-> count]

_get_tx_params(value, count) == [value |-> value, nonce |-> Max(last_nonce, count)]

(* finally: self.last_nonce = Nonce(tx_params["nonce"] + 1) *)
nonce_after(params) == params.nonce + 1

_build_and_send_tx(function, tx_params, tr, pf, rs) ==
    \E count \in (IF tx_params = None THEN TxCounts ELSE {0}) : \E sent \in BOOLEAN :
        LET params == IF tx_params = None THEN _get_tx_params(0, count) ELSE tx_params[1]
            tr1 == tr \o (IF tx_params = None
                          THEN <<Ev("get_transaction_count", "")>> ELSE <<>>)
                      \o <<Ev("estimate_gas", ""), Ev("send_raw_transaction", "")>>
                      \o (IF sent THEN <<>> ELSE <<Ev("error", "TransportError")>>)
            transaction == [fn |-> function.fn, qty |-> function.qty,
                            limit |-> function.limit, eth_limit |-> function.eth_limit,
                            deadline |-> function.deadline,
                            recipient |-> function.recipient, token |-> function.token,
                            value |-> params.value, nonce |-> params.nonce]
        IN  /\ params.nonce < MaxNonce
            /\ Finish(IF sent THEN Return(0, 0) ELSE Exc("TransportError"),
                      tr1, transaction, nonce_after(params), pf, rs)

Function(fn, qty, limit, eth_limit, deadline, recipient, token) ==
    [fn |-> fn, qty |-> qty, limit |-> limit, eth_limit |-> eth_limit,
     deadline |-> deadline, recipient |-> recipient, token |-> token]

-----------------------------------------------------------------------------
(* The price hooks: the set of outcomes a call can have.  On V1 a price is   *)
(* what the exchange contract's getter returns; token to token prices are    *)
(* not supported there.  The hooks of the other versions are not among the   *)
(* sources: they return the counterpart amount.                              *)

hook_price == {Ok(q) : q \in Quotes}

_get_eth_token_input_price(ver) == IF ver = 1 THEN {Ok(q) : q \in Quotes} ELSE hook_price
_get_token_eth_input_price(ver) == IF ver = 1 THEN {Ok(q) : q \in Quotes} ELSE hook_price
_get_eth_token_output_price(ver) == IF ver = 1 THEN {Ok(q) : q \in Quotes} ELSE hook_price
_get_token_eth_output_price(ver) == IF ver = 1 THEN {Ok(q) : q \in Quotes} ELSE hook_price
_get_token_token_input_price(ver) ==
    IF ver = 1 THEN {Err("UnsupportedUniSwapVersion")} ELSE hook_price
_get_token_token_output_price(ver) ==
    IF ver = 1 THEN {Err("UnsupportedUniSwapVersion")} ELSE hook_price

(* A hook that calls the contract can also see the call fail *)
Called(outcomes) ==
    IF \E o \in outcomes : o.exc = ""
    THEN outcomes \cup {Err(e) : e \in ContractErrors}
    ELSE outcomes

(* The swap builders of the other versions are not among the sources: they   *)
(* submit one instruction with the caller as the default recipient.          *)
hook_swap(fn, qty, recipient, token, value, tr, pf) ==
    \E now \in Clock :
        _build_and_send_tx(
            Function(fn, qty, None, None, now + DeadlineSeconds,
                     IF recipient = NoRecipient THEN address ELSE recipient, token),
            None, tr \o <<Ev("time", "")>>, pf, NoReserves)

-----------------------------------------------------------------------------
(* protocol/v1.py: Make Trade *)

_eth_to_token_swap_input(output_token, qty, recipient, tr, pf) ==
    \E count \in TxCounts : \E now \in Clock :
        LET tx_params == _get_tx_params(qty, count)
            function ==
                Function(IF recipient = NoRecipient
                         THEN "ethToTokenSwapInput" ELSE "ethToTokenTransferInput",
                         qty, None, None, _deadline(now), recipient, NoRecipient)
        IN  _build_and_send_tx(function, Some(tx_params),
                tr \o <<Ev("get_transaction_count", ""), Ev("time", "")>>, pf, NoReserves)

(* _token_to_eth_swap_input without the test of line 252: the recipient is *)
(* always passed on                                                       *)
_token_to_eth_swap_input_always_transfer(input_token, qty, recipient, tr, pf) ==
    \E now \in Clock :
        LET function == Function("tokenToEthTransferInput", qty, Some(1), None,
                                 _deadline(now), recipient, NoRecipient)
        IN  _build_and_send_tx(function, None, tr \o <<Ev("time", "")>>, pf, NoReserves)

_token_to_eth_swap_input(input_token, qty, recipient, tr, pf) ==
    \E now \in Clock :
        LET function ==
                Function(IF recipient = NoRecipient
                         THEN "tokenToEthSwapInput" ELSE "tokenToEthTransferInput",
                         qty, Some(1), None, _deadline(now), recipient, NoRecipient)
        IN  _build_and_send_tx(function, None, tr \o <<Ev("time", "")>>, pf, NoReserves)

_token_to_token_swap_input(input_token, output_token, qty, recipient, tr, pf) ==
    \E r \in ReserveVals \X ReserveVals \X ReserveVals \X ReserveVals : \E now \in Clock :
        LET c == _calculate_max_output_token(input_token, qty, output_token, r)
        IN  IF c.exc # ""
            THEN Raise(c.exc, tr \o c.tr, pf, c.reserves)
            ELSE LET min_tokens_bought == c.val
                     min_eth_bought == c.val2
                     function ==
                         Function(IF recipient = NoRecipient
                                  THEN "tokenToTokenSwapInput"
                                  ELSE "tokenToTokenTransferInput",
                                  qty, Some(min_tokens_bought), Some(min_eth_bought),
                                  _deadline(now), recipient, output_token)
                 IN  _build_and_send_tx(function, None,
                         tr \o c.tr \o <<Ev("time", "")>>, pf, c.reserves)

_eth_to_token_swap_output(output_token, qty, recipient, tr, pf) ==
    \E e \in _get_eth_token_output_price(1) : \E count \in TxCounts : \E now \in Clock :
        LET eth_qty == e.val
            tx_params == _get_tx_params(eth_qty, count)
            function ==
                Function(IF recipient = NoRecipient
                         THEN "ethToTokenSwapOutput" ELSE "ethToTokenTransferOutput",
                         qty, None, None, _deadline(now), recipient, NoRecipient)
        IN  _build_and_send_tx(function, Some(tx_params),
                tr \o Hooked("_get_eth_token_output_price", output_token, e)
                   \o <<Ev("get_transaction_count", ""), Ev("time", "")>>, pf, NoReserves)

_token_to_eth_swap_output(input_token, qty, recipient, slippage, tr, pf) ==
    \E r \in ReserveVals \X ReserveVals : \E now \in Clock :
        LET m == max_tokens_of(qty, slippage, r)
            rs == [NoReserves EXCEPT
                     !.input_reserve_a = Read(input_token, "token", r[1]),
                     !.output_reserve_a = Read(input_token, "eth", r[2])]
            tr1 == tr \o <<Ev("get_ex_token_balance", input_token),
                           Ev("get_ex_eth_balance", input_token)>>
        IN  IF m.exc # ""
            THEN Raise(m.exc, tr1, pf, rs)
            ELSE LET max_tokens == m.val
                     function ==
                         Function(IF recipient = NoRecipient
                                  THEN "tokenToEthSwapOutput"
                                  ELSE "tokenToEthTransferOutput",
                                  qty, Some(max_tokens), None, _deadline(now),
                                  recipient, NoRecipient)
                 IN  _build_and_send_tx(function, None, tr1 \o <<Ev("time", "")>>, pf, rs)

_token_to_token_swap_output(input_token, output_token, qty, recipient, tr, pf) ==
    \E r \in ReserveVals \X ReserveVals \X ReserveVals \X ReserveVals :
    \E count \in TxCounts : \E now \in Clock :
        LET c == _calculate_max_input_token(input_token, qty, output_token, r)
        IN  IF c.exc # ""
            THEN Raise(c.exc, tr \o c.tr, pf, c.reserves)
            ELSE LET max_tokens_sold == c.val
                     max_eth_sold == c.val2
                     tx_params == _get_tx_params(0, count)
                     function ==
                         Function(IF recipient = NoRecipient
                                  THEN "tokenToTokenSwapOutput"
                                  ELSE "tokenToTokenTransferOutput",
                                  qty, Some(max_tokens_sold), Some(max_eth_sold),
                                  _deadline(now), recipient, output_token)
                 IN  _build_and_send_tx(function, Some(tx_params),
                         tr \o c.tr \o <<Ev("get_transaction_count", ""), Ev("time", "")>>,
                         pf, c.reserves)

-----------------------------------------------------------------------------
(* protocol/base.py: the wrappers, which check the balance and hand over to  *)
(* the builder of the client's protocol class                                *)

-----------------------------------------------------------------------------
(* protocol/v1.py: Liquidity *)

(* get_exchange_rate: float(token_reserve / eth_reserve) *)
get_exchange_rate(eth_reserve, token_reserve) == <<token_reserve, eth_reserve>>

add_liquidity(token, max_eth, min_liquidity) ==
    \E count \in TxCounts : \E r \in ReserveVals \X ReserveVals : \E now \in Clock :
        LET tx_params == _get_tx_params(max_eth, count)
            rate == get_exchange_rate(r[1], r[2])
            max_token == int(<<max_eth * rate[1], rate[2]>>) + 10
            rs == [NoReserves EXCEPT
                     !.output_reserve_a = Read(token, "eth", r[1]),
                     !.input_reserve_a = Read(token, "token", r[2])]
            function == Function("addLiquidity", min_liquidity, Some(max_token), None,
                                 _deadline(now), NoRecipient, NoRecipient)
        IN  _build_and_send_tx(function, Some(tx_params),
                check_approval \o <<Ev("get_transaction_count", ""),
                                    Ev("get_ex_eth_balance", token),
                                    Ev("get_ex_token_balance", token),
                                    Ev("time", "")>>,
                NoPreflight, rs)

remove_liquidity(token, max_token) ==
    \E now \in Clock :
        LET function == Function("removeLiquidity", max_token, Some(1), Some(1),
                                 _deadline(now), NoRecipient, NoRecipient)
        IN  _build_and_send_tx(function, None, check_approval \o <<Ev("time", "")>>,
                               NoPreflight, NoReserves)

-----------------------------------------------------------------------------
(* tokens.py *)

TokenOk(v, tr) == [exc |-> "", val |-> v, tr |-> tr]
TokenErr(e, tr) == [exc |-> e, val |-> 0, tr |-> tr]

(* get_token without the except clause of lines 82-86 *)
get_token_uncaught(addr, o) ==
    IF addr = ETH_ADDRESS
    THEN TokenOk(18, <<>>)
    ELSE IF o.exc # ""
         THEN TokenErr(o.exc, <<Ev("metadata", addr), Ev("error", o.exc)>>)
         ELSE TokenOk(o.val, <<Ev("metadata", addr)>>)

(* o: the outcome of the calls name(), symbol() and decimals() *)
get_token(addr, o) ==
    IF addr = ETH_ADDRESS
    THEN TokenOk(18, <<>>)
    ELSE IF o.exc # ""
         THEN TokenErr("InvalidToken", <<Ev("metadata", addr), Ev("error", o.exc)>>)
         ELSE TokenOk(o.val, <<Ev("metadata", addr)>>)

MetadataOutcomes == {Ok(d) : d \in Decimals} \cup {Err(e) : e \in ContractErrors}

(* protocol/v1.py: _get_all_tokens.  ids: what getTokenWithId returns for   *)
(* 0..tokenCount-1; outs: the outcome of the metadata calls for each; the   *)
(* value is the number of tokens collected from index i on.                 *)
RECURSIVE collect_tokens(_, _, _)
collect_tokens(ids, outs, i) ==
    IF i > Len(ids)
    THEN TokenOk(0, <<>>)
    ELSE LET here == <<Ev("getTokenWithId", ids[i])>>
         IN  IF ids[i] = ETH_ADDRESS
             THEN LET rest == collect_tokens(ids, outs, i + 1)
                  IN  [rest EXCEPT !.tr = here \o @]
             ELSE LET token == get_token(ids[i], outs[i])
                  IN  IF token.exc # ""
                      THEN TokenErr(token.exc, here \o token.tr)
                      ELSE LET rest == collect_tokens(ids, outs, i + 1)
                           IN  IF rest.exc # ""
                               THEN TokenErr(rest.exc, here \o token.tr \o rest.tr)
                               ELSE TokenOk(rest.val + 1, here \o token.tr \o rest.tr)

_get_all_tokens(ids, outs) ==
    LET c == collect_tokens(ids, outs, 1)
    IN  [c EXCEPT !.tr = <<Ev("tokenCount", "")>> \o @]

Balance(b) == [balance |-> Some(b), cost |-> None, amount_in_max |-> None]
Needed(b, need) == [balance |-> Some(b), cost |-> Some(need), amount_in_max |-> None]
Quoted(b, cost, m) == [balance |-> Some(b), cost |-> Some(cost), amount_in_max |-> Some(m)]

(* _wrap_eth_to_token_swap_input without the check of lines 332-334 *)
_wrap_eth_to_token_swap_input_unchecked(output_token, qty, recipient, tr) ==
    IF output_token = ETH_ADDRESS
    THEN Raise("InvalidTokenArgument", tr, NoPreflight, NoReserves)
    ELSE \E eth_balance \in Balances :
        LET tr1 == tr \o <<Ev("get_eth_balance", "")>>
        IN  IF version = 1
            THEN _eth_to_token_swap_input(output_token, qty, recipient,
                     Enter(tr1, "_eth_to_token_swap_input"), Balance(eth_balance))
            ELSE hook_swap("_eth_to_token_swap_input", qty, recipient, output_token,
                           qty, Enter(tr1, "_eth_to_token_swap_input"),
                           Balance(eth_balance))

_wrap_eth_to_token_swap_input(output_token, qty, recipient, tr) ==
    IF output_token = ETH_ADDRESS
    THEN Raise("InvalidTokenArgument", tr, NoPreflight, NoReserves)
    ELSE \E eth_balance \in Balances :
        LET tr1 == tr \o <<Ev("get_eth_balance", "")>>
        IN  IF qty > eth_balance
            THEN Finish(InsufficientBalance(eth_balance, qty), tr1, NoTx, last_nonce,
                        Balance(eth_balance), NoReserves)
            ELSE IF version = 1
                 THEN _eth_to_token_swap_input(output_token, qty, recipient,
                         Enter(tr1, "_eth_to_token_swap_input"),
                                               Balance(eth_balance))
                 ELSE hook_swap("_eth_to_token_swap_input", qty, recipient, output_token,
                                qty, Enter(tr1, "_eth_to_token_swap_input"),
                                Balance(eth_balance))

(* _wrap_token_to_eth_swap_input with the check of lines 373-375 made after *)
(* the instruction was sent                                                 *)
_wrap_token_to_eth_swap_input_late_check(input_token, qty, recipient, tr) ==
    IF input_token = ETH_ADDRESS
    THEN Raise("InvalidTokenArgument", tr, NoPreflight, NoReserves)
    ELSE \E input_balance \in Balances :
        LET tr1 == tr \o <<Ev("get_token_balance", input_token)>>
        IN  IF qty > input_balance
            THEN \E count \in TxCounts :
                   LET params == _get_tx_params(0, count)
                   IN  /\ params.nonce < MaxNonce
                       /\ Finish(InsufficientBalance(input_balance, qty),
                                 tr1 \o <<Ev("send_raw_transaction", "")>>,
                                 [NoTx EXCEPT !.fn = "tokenToEthSwapInput", !.qty = qty,
                                              !.nonce = params.nonce],
                                 params.nonce + 1, Balance(input_balance), NoReserves)
            ELSE IF version = 1
                 THEN _token_to_eth_swap_input(input_token, qty, recipient,
                          Enter(tr1, "_token_to_eth_swap_input"), Balance(input_balance))
                 ELSE hook_swap("_token_to_eth_swap_input", qty, recipient, NoRecipient,
                                0, Enter(tr1, "_token_to_eth_swap_input"),
                                Balance(input_balance))

_wrap_token_to_eth_swap_input(input_token, qty, recipient, tr) ==
    IF input_token = ETH_ADDRESS
    THEN Raise("InvalidTokenArgument", tr, NoPreflight, NoReserves)
    ELSE \E input_balance \in Balances :
        LET tr1 == tr \o <<Ev("get_token_balance", input_token)>>
        IN  IF qty > input_balance
            THEN Finish(InsufficientBalance(input_balance, qty), tr1, NoTx, last_nonce,
                        Balance(input_balance), NoReserves)
            ELSE IF version = 1
                 THEN _token_to_eth_swap_input(input_token, qty, recipient,
                         Enter(tr1, "_token_to_eth_swap_input"),
                                               Balance(input_balance))
                 ELSE hook_swap("_token_to_eth_swap_input", qty, recipient, NoRecipient,
                                0, Enter(tr1, "_token_to_eth_swap_input"),
                                Balance(input_balance))

_wrap_token_to_token_swap_input(input_token, output_token, qty, recipient, tr) ==
    \E input_balance \in Balances :
        LET tr1 == tr \o <<Ev("get_token_balance", input_token)>>
        IN  IF qty > input_balance
            THEN Finish(InsufficientBalance(input_balance, qty), tr1, NoTx, last_nonce,
                        Balance(input_balance), NoReserves)
            ELSE IF ETH_ADDRESS \in {input_token, output_token}
            THEN Raise("InvalidTokenArgument", tr1, Balance(input_balance), NoReserves)
            ELSE LET recipient1 == IF recipient = NoRecipient THEN address ELSE recipient
                 IN  IF version = 1
                     THEN _token_to_token_swap_input(input_token, output_token, qty,
                                                     recipient1,
                                                             Enter(tr1, "_token_to_token_swap_input"), Balance(input_balance))
                     ELSE hook_swap("_token_to_token_swap_input", qty, recipient1,
                                    output_token, 0, Enter(tr1, "_token_to_token_swap_input"),
                                Balance(input_balance))

_wrap_eth_to_token_swap_output(output_token, qty, recipient, slippage, tr) ==
    IF output_token = ETH_ADDRESS
    THEN Raise("InvalidTokenArgument", tr, NoPreflight, NoReserves)
    ELSE \E eth_balance \in Balances : \E c \in _get_eth_token_output_price(version) :
        LET cost == c.val
            amount_in_max == amount_in_max_of(slippage, cost)
            pf == Quoted(eth_balance, cost, amount_in_max)
            tr1 == tr \o <<Ev("get_eth_balance", "")>>
                      \o Hooked("_get_eth_token_output_price", output_token, c)
        IN  IF amount_in_max > eth_balance
            THEN Finish(InsufficientBalance(eth_balance, amount_in_max), tr1, NoTx,
                        last_nonce, pf, NoReserves)
            ELSE IF version = 1
                 THEN _eth_to_token_swap_output(output_token, qty, recipient,
                         Enter(tr1, "_eth_to_token_swap_output"), pf)
                 ELSE hook_swap("_eth_to_token_swap_output", qty, recipient, output_token,
                                amount_in_max, Enter(tr1, "_eth_to_token_swap_output"),
                                pf)

_wrap_token_to_eth_swap_output(input_token, qty, recipient, slippage, tr) ==
    IF input_token = ETH_ADDRESS
    THEN Raise("InvalidTokenArgument", tr, NoPreflight, NoReserves)
    ELSE \E input_balance \in Balances : \E c \in _get_token_eth_output_price(version) :
        LET cost == c.val
            amount_in_max == amount_in_max_of(slippage, cost)
            pf == Quoted(input_balance, cost, amount_in_max)
            tr1 == tr \o <<Ev("get_token_balance", input_token)>>
                      \o Hooked("_get_token_eth_output_price", input_token, c)
        IN  IF amount_in_max > input_balance
            THEN Finish(InsufficientBalance(input_balance, amount_in_max), tr1, NoTx,
                        last_nonce, pf, NoReserves)
            ELSE IF version = 1
                 THEN _token_to_eth_swap_output(input_token, qty, recipient, slippage,
                                                Enter(tr1, "_token_to_eth_swap_output"), pf)
                 ELSE hook_swap("_token_to_eth_swap_output", qty, recipient, NoRecipient,
                                0, Enter(tr1, "_token_to_eth_swap_output"),
                                pf)

_wrap_token_to_token_swap_output(input_token, output_token, qty, recipient, slippage, tr) ==
    IF ETH_ADDRESS \in {input_token, output_token}
    THEN Raise("InvalidTokenArgument", tr, NoPreflight, NoReserves)
    ELSE \E input_balance \in Balances : \E c \in _get_token_token_output_price(version) :
        LET tr0 == tr \o <<Ev("get_token_balance", input_token)>>
                      \o Hooked("_get_token_token_output_price", input_token, c)
        IN  IF c.exc # ""
            THEN Raise(c.exc, tr0, Balance(input_balance), NoReserves)
            ELSE
            LET cost == c.val
                amount_in_max == amount_in_max_of(slippage, cost)
                pf == Quoted(input_balance, cost, amount_in_max)
                tr1 == tr0
            IN  IF amount_in_max > input_balance
                THEN Finish(InsufficientBalance(input_balance, amount_in_max), tr1, NoTx,
                            last_nonce, pf, NoReserves)
                ELSE IF version = 1
                     THEN _token_to_token_swap_output(input_token, output_token, qty,
                                                      recipient,
                                                              Enter(tr1, "_token_to_token_swap_output"), pf)
                     ELSE hook_swap("_token_to_token_swap_output", qty, recipient,
                                    output_token, 0, Enter(tr1, "_token_to_token_swap_output"),
                                pf)

-----------------------------------------------------------------------------
(* protocol/base.py: the four public operations *)

PriceReturn(outcomes, name, token) ==
    \E o \in Called(outcomes) :
        IF o.exc \in ContractErrors
        THEN Raise(o.exc, Hooked(name, token, o) \o <<Ev("error", o.exc)>>,
                   NoPreflight, NoReserves)
        ELSE IF o.exc # ""
        THEN Raise(o.exc, Hooked(name, token, o), NoPreflight, NoReserves)
        ELSE Finish(Return(o.val, 0), Hooked(name, token, o), NoTx, last_nonce,
                    NoPreflight, NoReserves)

get_price_input(token0, token1, qty, fee_arg) ==
    LET f == FeeTier_create(fee_arg, version)
    IN  /\ fee' = f
        /\ IF f.exc # ""
           THEN Raise(f.exc, <<>>, NoPreflight, NoReserves)
           ELSE IF token0 = ETH_ADDRESS
           THEN PriceReturn(_get_eth_token_input_price(version),
                            "_get_eth_token_input_price", token1)
           ELSE IF token1 = ETH_ADDRESS
           THEN PriceReturn(_get_token_eth_input_price(version),
                            "_get_token_eth_input_price", token0)
           ELSE PriceReturn(_get_token_token_input_price(version),
                            "_get_token_token_input_price", token0)

(* get_price_output with the sides of the native asset mixed up *)
get_price_output_swapped(token0, token1, qty, fee_arg) ==
    LET f == FeeTier_create(fee_arg, version)
    IN  /\ fee' = f
        /\ IF f.exc # ""
           THEN Raise(f.exc, <<>>, NoPreflight, NoReserves)
           ELSE IF token1 = ETH_ADDRESS
           THEN PriceReturn(_get_eth_token_output_price(version),
                            "_get_eth_token_output_price", token0)
           ELSE IF token0 = ETH_ADDRESS
           THEN PriceReturn(_get_token_eth_output_price(version),
                            "_get_token_eth_output_price", token1)
           ELSE PriceReturn(_get_token_token_output_price(version),
                            "_get_token_token_output_price", token0)

get_price_output(token0, token1, qty, fee_arg) ==
    LET f == FeeTier_create(fee_arg, version)
    IN  /\ fee' = f
        /\ IF f.exc # ""
           THEN Raise(f.exc, <<>>, NoPreflight, NoReserves)
           ELSE IF token0 = ETH_ADDRESS
           THEN PriceReturn(_get_eth_token_output_price(version),
                            "_get_eth_token_output_price", token1)
           ELSE IF token1 = ETH_ADDRESS
           THEN PriceReturn(_get_token_eth_output_price(version),
                            "_get_token_eth_output_price", token0)
           ELSE PriceReturn(_get_token_token_output_price(version),
                            "_get_token_token_output_price", token0)

(* make_trade without the check of lines 262-263 *)
make_trade_unchecked(input_token, output_token, qty, recipient, fee_arg, slippage_arg, fee_on_transfer) ==
    LET f == FeeTier_create(fee_arg, version)
        tr == check_approval
    IN  /\ fee' = f
        /\ IF f.exc # ""
           THEN Raise(f.exc, tr, NoPreflight, NoReserves)
           ELSE IF input_token = ETH_ADDRESS
           THEN _wrap_eth_to_token_swap_input(output_token, qty, recipient,
                    Enter(tr, "_wrap_eth_to_token_swap_input"))
           ELSE IF output_token = ETH_ADDRESS
           THEN _wrap_token_to_eth_swap_input(input_token, qty, recipient,
                    Enter(tr, "_wrap_token_to_eth_swap_input"))
           ELSE _wrap_token_to_token_swap_input(input_token, output_token, qty, recipient,
                    Enter(tr, "_wrap_token_to_token_swap_input"))

make_trade(input_token, output_token, qty, recipient, fee_arg, slippage_arg, fee_on_transfer) ==
    LET f == FeeTier_create(fee_arg, version)
        slippage == IF slippage_arg = None THEN default_slippage ELSE slippage_arg[1]
        tr == check_approval
    IN  /\ fee' = f
        /\ IF f.exc # ""
           THEN Raise(f.exc, tr, NoPreflight, NoReserves)
           ELSE IF input_token = output_token
           THEN Raise("InvalidTokenArgument", tr, NoPreflight, NoReserves)
           ELSE IF input_token = ETH_ADDRESS
           THEN _wrap_eth_to_token_swap_input(output_token, qty, recipient,
                   Enter(tr, "_wrap_eth_to_token_swap_input"))
           ELSE IF output_token = ETH_ADDRESS
           THEN _wrap_token_to_eth_swap_input(input_token, qty, recipient,
                   Enter(tr, "_wrap_token_to_eth_swap_input"))
           ELSE _wrap_token_to_token_swap_input(input_token, output_token, qty,
                                                recipient,
                                                        Enter(tr, "_wrap_token_to_token_swap_input"))

make_trade_output(input_token, output_token, qty, recipient, fee_arg, slippage_arg) ==
    LET f == FeeTier_create(fee_arg, version)
        slippage == IF slippage_arg = None THEN default_slippage ELSE slippage_arg[1]
        tr == check_approval
    IN  /\ fee' = f
        /\ IF f.exc # ""
           THEN Raise(f.exc, tr, NoPreflight, NoReserves)
           ELSE IF input_token = output_token
           THEN Raise("InvalidTokenArgument", tr, NoPreflight, NoReserves)
           ELSE IF input_token = ETH_ADDRESS
           THEN \E balance \in Balances : \E n \in _get_eth_token_output_price(version) :
                    LET need == n.val
                        tr1 == tr \o <<Ev("get_eth_balance", "")>>
                                  \o Hooked("_get_eth_token_output_price", output_token, n)
                    IN  IF balance < need
                        THEN Finish(InsufficientBalance(balance, need), tr1, NoTx,
                                    last_nonce, Needed(balance, need), NoReserves)
                        ELSE _wrap_eth_to_token_swap_output(output_token, qty, recipient,
                                                            slippage,
                                                                    Enter(tr1, "_wrap_eth_to_token_swap_output"))
           ELSE IF output_token = ETH_ADDRESS
           THEN _wrap_token_to_eth_swap_output(input_token, qty, recipient, slippage,
                   Enter(tr, "_wrap_token_to_eth_swap_output"))
           ELSE _wrap_token_to_token_swap_output(input_token, output_token, qty,
                                                 recipient, slippage,
                                                         Enter(tr, "_wrap_token_to_token_swap_output"))

-----------------------------------------------------------------------------
(* The caller *)

Args(op, input_token, output_token, qty, recipient, fee_arg, slippage_arg, fee_on_transfer) ==
    [op |-> op, input_token |-> input_token, output_token |-> output_token, qty |-> qty,
     recipient |-> recipient, fee |-> fee_arg, slippage |-> slippage_arg,
     fee_on_transfer |-> fee_on_transfer]

Init ==
    /\ version \in Versions
    /\ last_nonce \in TxCounts
    /\ pc = "idle"
    /\ call = NoCall
    /\ fee = NoFee
    /\ result = NoResult
    /\ trace = <<>>
    /\ tx = NoTx
    /\ preflight = NoPreflight
    /\ reserves = NoReserves
    /\ time = 0
    /\ inflight = NoRequests
    /\ sends = <<>>

CallGetPriceInput ==
    /\ pc = "idle"
    /\ \E token0 \in Addresses, token1 \in Addresses, qty \in Qtys, f \in FeeArgs :
        /\ call' = Args("get_price_input", token0, token1, qty, NoRecipient, f, None, FALSE)
        /\ get_price_input(token0, token1, qty, f)
    /\ pc' = "done"
    /\ UNCHANGED <<version, time, inflight, sends>>

CallGetPriceOutput ==
    /\ pc = "idle"
    /\ \E token0 \in Addresses, token1 \in Addresses, qty \in Qtys, f \in FeeArgs :
        /\ call' = Args("get_price_output", token0, token1, qty, NoRecipient, f, None, FALSE)
        /\ get_price_output(token0, token1, qty, f)
    /\ pc' = "done"
    /\ UNCHANGED <<version, time, inflight, sends>>

CallMakeTrade ==
    /\ pc = "idle"
    /\ \E input_token \in Addresses, output_token \in Addresses, qty \in Qtys,
          recipient \in Recipients, f \in FeeArgs, slippage \in SlippageArgs,
          fee_on_transfer \in BOOLEAN :
        /\ call' = Args("make_trade", input_token, output_token, qty, recipient, f,
                        slippage, fee_on_transfer)
        /\ make_trade(input_token, output_token, qty, recipient, f, slippage,
                      fee_on_transfer)
    /\ pc' = "done"
    /\ UNCHANGED <<version, time, inflight, sends>>

CallMakeTradeOutput ==
    /\ pc = "idle"
    /\ \E input_token \in Addresses, output_token \in Addresses, qty \in Qtys,
          recipient \in Recipients, f \in FeeArgs, slippage \in SlippageArgs :
        /\ call' = Args("make_trade_output", input_token, output_token, qty, recipient, f,
                        slippage, FALSE)
        /\ make_trade_output(input_token, output_token, qty, recipient, f, slippage)
    /\ pc' = "done"
    /\ UNCHANGED <<version, time, inflight, sends>>

(* The two price calculations of UniswapV1, called on their own *)
CallCalculateMaxInputToken ==
    /\ pc = "idle"
    /\ version = 1
    /\ \E input_token \in Tokens, output_token \in Tokens, qty \in Qtys,
          r \in ReserveVals \X ReserveVals \X ReserveVals \X ReserveVals :
        LET c == _calculate_max_input_token(input_token, qty, output_token, r)
        IN  /\ call' = Args("_calculate_max_input_token", input_token, output_token, qty,
                            NoRecipient, None, None, FALSE)
            /\ IF c.exc # ""
               THEN Raise(c.exc, c.tr, NoPreflight, c.reserves)
               ELSE Finish(Return(c.val, c.val2), c.tr, NoTx, last_nonce, NoPreflight,
                           c.reserves)
    /\ fee' = NoFee
    /\ pc' = "done"
    /\ UNCHANGED <<version, time, inflight, sends>>

CallCalculateMaxOutputToken ==
    /\ pc = "idle"
    /\ version = 1
    /\ \E output_token \in Tokens, input_token \in Tokens, qty \in Qtys,
          r \in ReserveVals \X ReserveVals \X ReserveVals \X ReserveVals :
        LET c == _calculate_max_output_token(output_token, qty, input_token, r)
        IN  /\ call' = Args("_calculate_max_output_token", input_token, output_token, qty,
                            NoRecipient, None, None, FALSE)
            /\ IF c.exc # ""
               THEN Raise(c.exc, c.tr, NoPreflight, c.reserves)
               ELSE Finish(Return(c.val, c.val2), c.tr, NoTx, last_nonce, NoPreflight,
                           c.reserves)
    /\ fee' = NoFee
    /\ pc' = "done"
    /\ UNCHANGED <<version, time, inflight, sends>>

(* The token to token exact-output builder of UniswapV1, called on its own *)
CallTokenToTokenSwapOutput ==
    /\ pc = "idle"
    /\ version = 1
    /\ \E input_token \in Tokens, output_token \in Tokens, qty \in Qtys,
          recipient \in Recipients :
        /\ call' = Args("_token_to_token_swap_output", input_token, output_token, qty,
                        recipient, None, None, FALSE)
        /\ _token_to_token_swap_output(input_token, output_token, qty, recipient,
                                       <<>>, NoPreflight)
    /\ fee' = NoFee
    /\ pc' = "done"
    /\ UNCHANGED <<version, time, inflight, sends>>

(* The liquidity operations of UniswapV1 *)
CallAddLiquidity ==
    /\ pc = "idle"
    /\ version = 1
    /\ \E token \in Tokens, max_eth \in Qtys, min_liquidity \in {1} :
        /\ call' = Args("add_liquidity", token, ETH_ADDRESS, max_eth, NoRecipient, None,
                        None, FALSE)
        /\ add_liquidity(token, max_eth, min_liquidity)
    /\ fee' = NoFee
    /\ pc' = "done"
    /\ UNCHANGED <<version, time, inflight, sends>>

CallRemoveLiquidity ==
    /\ pc = "idle"
    /\ version = 1
    /\ \E token \in Tokens, max_token \in Qtys :
        /\ call' = Args("remove_liquidity", token, ETH_ADDRESS, max_token, NoRecipient,
                        None, None, FALSE)
        /\ remove_liquidity(token, max_token)
    /\ fee' = NoFee
    /\ pc' = "done"
    /\ UNCHANGED <<version, time, inflight, sends>>

(* get_token of tokens.py and _get_all_tokens of UniswapV1Utils *)
CallGetToken ==
    /\ pc = "idle"
    /\ \E addr \in Addresses, o \in MetadataOutcomes :
        LET t == get_token(addr, o)
        IN  /\ call' = Args("get_token", addr, addr, 0, NoRecipient, None, None, FALSE)
            /\ IF t.exc # ""
               THEN Raise(t.exc, t.tr, NoPreflight, NoReserves)
               ELSE Finish(Return(t.val, 0), t.tr, NoTx, last_nonce, NoPreflight,
                           NoReserves)
    /\ fee' = NoFee
    /\ pc' = "done"
    /\ UNCHANGED <<version, time, inflight, sends>>

CallGetAllTokens ==
    /\ pc = "idle"
    /\ version = 1
    /\ \E tokenCount \in 0..MaxTokenCount :
        \E ids \in [1..tokenCount -> Addresses], outs \in [1..tokenCount -> MetadataOutcomes] :
            LET t == _get_all_tokens(ids, outs)
            IN  /\ call' = Args("_get_all_tokens", "", "", tokenCount, NoRecipient, None,
                                None, FALSE)
                /\ IF t.exc # ""
                   THEN Raise(t.exc, t.tr, NoPreflight, NoReserves)
                   ELSE Finish(Return(t.val, 0), t.tr, NoTx, last_nonce, NoPreflight,
                               NoReserves)
    /\ fee' = NoFee
    /\ pc' = "done"
    /\ UNCHANGED <<version, time, inflight, sends>>

Back ==
    /\ pc = "done"
    /\ pc' = "idle"
    /\ call' = NoCall
    /\ fee' = NoFee
    /\ result' = NoResult
    /\ trace' = <<>>
    /\ tx' = NoTx
    /\ preflight' = NoPreflight
    /\ reserves' = NoReserves
    /\ UNCHANGED <<version, last_nonce, time, inflight, sends>>

(* The clock advances between two calls *)
Tick ==
    /\ pc = "idle"
    /\ time < MaxTime
    /\ time' = time + 1
    /\ UNCHANGED <<version, last_nonce, pc, call, fee, result, trace, tx, preflight, reserves,
                   inflight, sends>>

Next ==
    \/ CallGetPriceInput
    \/ CallGetPriceOutput
    \/ CallMakeTrade
    \/ CallMakeTradeOutput
    \/ CallCalculateMaxInputToken
    \/ CallCalculateMaxOutputToken
    \/ CallTokenToTokenSwapOutput
    \/ CallAddLiquidity
    \/ CallRemoveLiquidity
    \/ CallGetToken
    \/ CallGetAllTokens
    \/ Back
    \/ Tick

Spec == Init /\ [][Next]_vars

-----------------------------------------------------------------------------
(* The single-leg formulas applied one after the other to the same pool:
   out = int(exact input quote of a), then int(exact output quote of out),
   as _calculate_max_output_token (lines 419-421) and
   _token_to_eth_swap_output (lines 326-328) compute them. *)

RoundTripReserveIn == {1, 3, 10, 997, 1994}
RoundTripReserveOut == {2, 4, 7, 10, 1000}
RoundTripAmounts == Qtys \cup {10, 1000}

round_trip(a, inputReserve, outputReserve) ==
    LET out == int(exact_input_leg(a, inputReserve, outputReserve))
    IN  IF 0 < out /\ out < outputReserve
        THEN Return(out, int(exact_output_leg(out, inputReserve, outputReserve)))
        ELSE Return(out, 0)

InitRoundTrip ==
    /\ version = 1
    /\ last_nonce = 0
    /\ pc = "idle"
    /\ \E a \in RoundTripAmounts :
          call = Args("round_trip", "A", ETH_ADDRESS, a, NoRecipient, None, None, FALSE)
    /\ fee = NoFee
    /\ result = NoResult
    /\ trace = <<>>
    /\ tx = NoTx
    /\ preflight = NoPreflight
    /\ \E i \in RoundTripReserveIn, o \in RoundTripReserveOut :
          reserves = [NoReserves EXCEPT !.input_reserve_a = Read("A", "token", i),
                                        !.output_reserve_a = Read("A", "eth", o)]
    /\ time = 0
    /\ inflight = NoRequests
    /\ sends = <<>>

CallRoundTrip ==
    /\ pc = "idle"
    /\ result' = round_trip(call.qty, reserves.input_reserve_a[3],
                            reserves.output_reserve_a[3])
    /\ pc' = "done"
    /\ UNCHANGED <<version, last_nonce, call, fee, trace, tx, preflight, reserves, time,
                   inflight, sends>>

NextRoundTrip == CallRoundTrip

SpecRoundTrip == InitRoundTrip /\ [][NextRoundTrip]_vars

-----------------------------------------------------------------------------
(* A trade request taken step by step, from the point where it obtains its
   transaction parameters: _get_tx_params reads self.last_nonce and the
   chain's transaction count; build_transaction, estimate_gas and
   sign_transaction follow and may raise before the try statement is entered;
   send_raw_transaction is called inside try/finally, and the finally clause
   stores tx_params["nonce"] + 1 in self.last_nonce whether the send returned
   or raised.  The requests share the client, hence last_nonce. *)

MaxSends == 3

InitSubmit ==
    /\ version \in Versions
    /\ last_nonce \in TxCounts
    /\ pc = "idle"
    /\ call = NoCall
    /\ fee = NoFee
    /\ result = NoResult
    /\ trace = <<>>
    /\ tx = NoTx
    /\ preflight = NoPreflight
    /\ reserves = NoReserves
    /\ time = 0
    /\ inflight = NoRequests
    /\ sends = <<>>

SubmitFrame ==
    UNCHANGED <<version, pc, call, fee, result, trace, tx, preflight, reserves, time>>

(* params = self._get_tx_params(...) *)
GetTxParams(r) ==
    /\ inflight[r].pc = "idle"
    /\ Len(sends) < MaxSends
    /\ \E count \in TxCounts :
          LET params == _get_tx_params(0, count)
          IN  /\ params.nonce < MaxNonce
              /\ inflight' = [inflight EXCEPT ![r] = [pc |-> "params", nonce |-> params.nonce]]
    /\ UNCHANGED <<last_nonce, sends>>
    /\ SubmitFrame

(* function.build_transaction, estimate_gas or sign_transaction raises: the
   try statement is not reached, last_nonce keeps its value *)
FailBeforeSend(r) ==
    /\ inflight[r].pc = "params"
    /\ inflight' = [inflight EXCEPT ![r] = [pc |-> "failed", nonce |-> inflight[r].nonce]]
    /\ UNCHANGED <<last_nonce, sends>>
    /\ SubmitFrame

(* try: return self.w3.eth.send_raw_transaction(...) finally: last_nonce = ... *)
SendRawTransaction(r) ==
    /\ inflight[r].pc = "params"
    /\ Len(sends) < MaxSends
    /\ \E ok \in BOOLEAN :
          /\ inflight' = [inflight EXCEPT
                            ![r] = [pc |-> IF ok THEN "returned" ELSE "raised",
                                    nonce |-> inflight[r].nonce]]
          /\ sends' = Append(sends, [nonce |-> inflight[r].nonce, ok |-> ok])
    /\ last_nonce' = nonce_after(inflight[r])
    /\ SubmitFrame

Over == {"returned", "raised", "failed"}

(* the request is over; the caller makes its next one *)
NextRequest(r) ==
    /\ inflight[r].pc \in Over
    /\ inflight' = [inflight EXCEPT ![r] = [pc |-> "idle", nonce |-> 0]]
    /\ UNCHANGED <<last_nonce, sends>>
    /\ SubmitFrame

Others(r) == Requests \ {r}

(* One caller: a request begins when no other is in progress *)
BeginRequest(r) ==
    /\ \A o \in Others(r) : inflight[o].pc = "idle"
    /\ GetTxParams(r)

NextSequential ==
    \E r \in Requests :
        \/ BeginRequest(r)
        \/ FailBeforeSend(r)
        \/ SendRawTransaction(r)
        \/ NextRequest(r)

SpecSequential == InitSubmit /\ [][NextSequential]_vars

(* Two callers (threads) on the same client: their steps interleave freely *)
NextInterleaved ==
    \E r \in Requests :
        \/ GetTxParams(r)
        \/ FailBeforeSend(r)
        \/ SendRawTransaction(r)
        \/ NextRequest(r)

SpecInterleaved == InitSubmit /\ [][NextInterleaved]_vars

-----------------------------------------------------------------------------
(* Vocabulary of the properties *)

PublicOps == {"get_price_input", "get_price_output", "make_trade", "make_trade_output"}

Builders == {"_eth_to_token_swap_input", "_token_to_eth_swap_input",
             "_token_to_token_swap_input", "_eth_to_token_swap_output",
             "_token_to_eth_swap_output", "_token_to_token_swap_output"}

Returned == pc = "done" /\ call.op \in PublicOps

SlippageOf(c) == IF c.slippage = None THEN default_slippage ELSE c.slippage[1]

Delegated == \E i \in 1..Len(trace) : trace[i].ev \in {"call", "price"}

BuilderEntered == \E i \in 1..Len(trace) : trace[i].ev = "call" /\ trace[i].of \in Builders

CeilDiv(n, d) == (n + d - 1) \div d

-----------------------------------------------------------------------------
(* C1: on a version 3 client, each of the four public operations called with
   fee=None fails with ExplicitFeeTierRequred, whatever the tokens and the
   quantity, and before any price read, balance read or submission. *)
C1_ExplicitFeeTierRequired ==
    (Returned /\ version = 3 /\ call.fee = None) =>
        /\ result = Exc("ExplicitFeeTierRequred")
        /\ trace = <<>>
        /\ tx = NoTx
        /\ preflight = NoPreflight

C1_Witness ==
    /\ Returned /\ version = 3 /\ call.fee = None
    /\ call.op = "make_trade_output"
    /\ call.input_token = "A" /\ call.output_token = "B" /\ call.qty = MaxQty
    /\ result = Exc("ExplicitFeeTierRequred")

(* C2: for version < 3, FeeTier.create returns 3000 when the value is None or
   3000 and fails with InvalidFeeTier for every other present integer. *)
C2_SingleTierVersions ==
    (Returned /\ version < 3) =>
        fee = IF call.fee \in {None, Some(TIER_3000)}
              THEN Ok(TIER_3000)
              ELSE Err("InvalidFeeTier")

(* C3: for version 3, FeeTier.create(x, 3) with x present returns x when x is
   one of the four tiers and fails with InvalidFeeTier for every other present
   integer; a supplied value is never replaced by a default. *)
C3_MultiTierVersion ==
    (Returned /\ version = 3 /\ call.fee # None) =>
        IF call.fee[1] \in FeeTierValues
        THEN fee = Ok(call.fee[1])
        ELSE fee = Err("InvalidFeeTier")

(* C4 as stated: make_trade with input_token == output_token fails with
   InvalidTokenArgument regardless of every other parameter, the fee argument
   and the version included. *)
C4_SameTokenAlwaysInvalidTokenArgument ==
    (pc = "done" /\ call.op = "make_trade" /\ call.input_token = call.output_token) =>
        result = Exc("InvalidTokenArgument")

(* C4 amended: make_trade with input_token == output_token fails with
   InvalidTokenArgument whenever FeeTier.create accepts the fee argument for
   the client's version; when it does not, the call fails with the error of
   FeeTier.create instead.  In both cases nothing is read or submitted. *)
C4_SameTokenAfterFeeTier ==
    (pc = "done" /\ call.op = "make_trade" /\ call.input_token = call.output_token) =>
        /\ result = Exc(IF fee.exc = "" THEN "InvalidTokenArgument" ELSE fee.exc)
        /\ fee = FeeTier_create(call.fee, version)
        /\ trace = <<>>
        /\ tx = NoTx

C4_Witness ==
    /\ pc = "done" /\ call.op = "make_trade"
    /\ call.input_token = "A" /\ call.output_token = "A"
    /\ version = 3 /\ call.fee = Some(TIER_500)
    /\ result = Exc("InvalidTokenArgument")

(* C5: given a valid fee tier, each of the four dispatcher operations fails
   with InvalidTokenArgument when its two token arguments are equal, without
   delegating to any price or swap path. *)
C5_DispatchersRejectEqualTokens ==
    (Returned /\ fee.exc = "" /\ call.input_token = call.output_token) =>
        /\ result = Exc("InvalidTokenArgument")
        /\ ~Delegated

(* C6 as stated: amountInMax = ceil((1 + slippage) * cost); with slippage 0.01
   and cost 1000 it is 1011, so a balance of 1010 is rejected with
   InsufficientBalance(1010, 1011) and a balance of 1011 is accepted and
   reaches the swap builder. *)
C6_AmountInMaxIsCeiling ==
    (pc = "done" /\ call.op = "make_trade_output" /\ preflight.amount_in_max # None) =>
        LET s == SlippageOf(call)
            cost == preflight.cost[1]
            balance == preflight.balance[1]
            amount_in_max == preflight.amount_in_max[1]
        IN  /\ amount_in_max = CeilDiv((100 + s) * cost, 100)
            /\ (s = 1 /\ cost = 1000) =>
                  /\ amount_in_max = 1011
                  /\ balance = 1010 => result = InsufficientBalance(1010, 1011)
                  /\ balance = 1011 => BuilderEntered

(* C6 amended: amountInMax = int((1 + slippage) * cost), the product with its
   fraction dropped; with slippage 0.01 and cost 1000 it is 1010, so a balance
   of 1009 is rejected with InsufficientBalance(1009, 1010) and a balance of
   1010 is accepted and reaches the swap builder. *)
C6_AmountInMaxTruncates ==
    (pc = "done" /\ call.op = "make_trade_output" /\ preflight.amount_in_max # None) =>
        LET s == SlippageOf(call)
            cost == preflight.cost[1]
            balance == preflight.balance[1]
            amount_in_max == preflight.amount_in_max[1]
        IN  /\ 100 * amount_in_max <= (100 + s) * cost
            /\ (100 + s) * cost < 100 * (amount_in_max + 1)
            /\ balance < amount_in_max =>
                  /\ result = InsufficientBalance(balance, amount_in_max)
                  /\ ~BuilderEntered
                  /\ tx = NoTx
            /\ balance >= amount_in_max =>
                  /\ result.kind # "InsufficientBalance"
                  /\ BuilderEntered
            /\ (s = 1 /\ cost = 1000) =>
                  /\ amount_in_max = 1010
                  /\ balance = 1009 => result = InsufficientBalance(1009, 1010)
                  /\ balance = 1010 => result.kind # "InsufficientBalance"

C6_Witness ==
    /\ pc = "done" /\ call.op = "make_trade_output" /\ version = 1
    /\ call.slippage = None
    /\ preflight = Quoted(1010, 1000, 1010)
    /\ BuilderEntered
    /\ result.kind = "return"
    /\ tx.fn # "none"

(* C7: on every exact-output path of make_trade_output the trade is rejected
   exactly when the balance of the input asset is below amountInMax, and the
   InsufficientBalance raised carries (balance, amountInMax), never the
   unslipped cost. *)
C7_RejectionCarriesAmountInMax ==
    (pc = "done" /\ call.op = "make_trade_output" /\ preflight.cost # None) =>
        LET balance == preflight.balance[1]
            amount_in_max == amount_in_max_of(SlippageOf(call), preflight.cost[1])
        IN  /\ result.kind = "InsufficientBalance" <=> balance < amount_in_max
            /\ result.kind = "InsufficientBalance" =>
                  result = InsufficientBalance(balance, amount_in_max)

(* C8 as stated: for positive reserves and an exact-input amount a whose
   output out satisfies 0 < out < R_out, the exact-output amount for out,
   floor(out*R_in*1000 / ((R_out - out)*997)) + 1, is at most a. *)
C8_RoundTripAtMostInput ==
    (pc = "done" /\ call.op = "round_trip"
        /\ 0 < result.value /\ result.value < reserves.output_reserve_a[3]) =>
        result.value2 <= call.qty

(* C8 amended: under the same conditions the exact-output amount for out is at
   most a, except when a*R_out*997 is an exact multiple of R_in*1000 + a*997
   (the exact-input quote has no remainder); then it is a + 1. *)
C8_RoundTripAtMostInputPlusOne ==
    (pc = "done" /\ call.op = "round_trip"
        /\ 0 < result.value /\ result.value < reserves.output_reserve_a[3]) =>
        LET a == call.qty
            R_in == reserves.input_reserve_a[3]
            R_out == reserves.output_reserve_a[3]
            out == result.value
        IN  /\ out = (a * R_out * 997) \div (R_in * 1000 + a * 997)
            /\ IF (a * R_out * 997) % (R_in * 1000 + a * 997) = 0
               THEN result.value2 = a + 1
               ELSE result.value2 <= a /\ result.value2 >= 1

C8_Witness ==
    /\ pc = "done" /\ call.op = "round_trip"
    /\ call.qty = 1000
    /\ reserves.input_reserve_a[3] = 997 /\ reserves.output_reserve_a[3] = 4
    /\ result = Return(2, 1001)

(* C9: the exact-output computation fails with InsufficientLiquidity whenever
   the requested output amount is greater than or equal to the output reserve;
   it returns no amount and nothing is submitted. *)
C9_OutputAtOrAboveReserveFails ==
    (\/ /\ pc = "done" /\ call.op = "_calculate_max_input_token"
        /\ call.qty >= reserves.output_reserve_b[3]
     \/ /\ pc = "done" /\ call.op = "make_trade_output" /\ version = 1
        /\ call.output_token = ETH_ADDRESS
        /\ reserves.output_reserve_a # None
        /\ call.qty >= reserves.output_reserve_a[3]) =>
        /\ result = Exc("InsufficientLiquidity")
        /\ tx = NoTx

(* C10 as stated: the max ETH sold returned by the two-hop exact-output
   calculation is ceil(1.2 * computed), computed being the ETH cost of the
   second leg (taken either with its fraction or as a whole number). *)
C10_MaxEthSoldIsCeiling ==
    (pc = "done" /\ call.op = "_calculate_max_input_token" /\ result.kind = "return"
        /\ call.qty < reserves.output_reserve_b[3]) =>
        LET n == call.qty * reserves.input_reserve_b[3] * 1000
            d == (reserves.output_reserve_b[3] - call.qty) * 997
        IN  result.value2 \in {CeilDiv(12 * (n + d), 10 * d),
                               CeilDiv(12 * ((n \div d) + 1), 10)}

(* C10 amended: the max ETH sold is int(1.2 * computed): 1.2 times the ETH
   cost of the second leg, fraction included, with the fraction of the product
   dropped (toward zero), never rounded up. *)
C10_MaxEthSoldTruncates ==
    (pc = "done" /\ call.op = "_calculate_max_input_token" /\ result.kind = "return") =>
        LET n == call.qty * reserves.input_reserve_b[3] * 1000
            d == (reserves.output_reserve_b[3] - call.qty) * 997
            x == IF d < 0 THEN 0 - 12 * (n + d) ELSE 12 * (n + d)
            y == IF d < 0 THEN 0 - 10 * d ELSE 10 * d
            v == result.value2
        IN  IF x >= 0
            THEN y * v <= x /\ x < y * (v + 1)
            ELSE y * (v - 1) < x /\ x <= y * v

C10_Witness ==
    /\ pc = "done" /\ call.op = "_calculate_max_input_token" /\ result.kind = "return"
    /\ call.qty = 1
    /\ reserves.input_reserve_b[3] = 2 /\ reserves.output_reserve_b[3] = 10
    /\ result.value2 = 1

(* C11 as stated: the single-leg exact-output amount is the integer
   floor(amountOut*reserveIn*1000 / ((reserveOut - amountOut)*997)) + 1,
   truncated before the + 1 and whole before the slippage factor is applied,
   so that max_tokens = int((1 + slippage) * that integer). *)
C11_ExactOutputInIntegers ==
    (pc = "done" /\ call.op = "make_trade_output" /\ version = 1
        /\ call.output_token = ETH_ADDRESS /\ tx.fn # "none"
        /\ call.qty < reserves.output_reserve_a[3]) =>
        LET n == call.qty * reserves.input_reserve_a[3] * 1000
            d == (reserves.output_reserve_a[3] - call.qty) * 997
        IN  tx.limit = Some(((100 + SlippageOf(call)) * ((n \div d) + 1)) \div 100)

(* C11 amended: the single-leg exact-output amount is the quotient
   amountOut*reserveIn*1000 / ((reserveOut - amountOut)*997) + 1 taken with its
   fraction: nothing is truncated before the + 1, and the slippage factor is
   applied to that fractional amount; only the product is truncated, so that
   max_tokens = int((1 + slippage) * (numerator / denominator + 1)). *)
C11_ExactOutputKeepsFraction ==
    (pc = "done" /\ call.op = "make_trade_output" /\ version = 1
        /\ call.output_token = ETH_ADDRESS /\ tx.fn # "none") =>
        LET n == call.qty * reserves.input_reserve_a[3] * 1000
            d == (reserves.output_reserve_a[3] - call.qty) * 997
            s == SlippageOf(call)
            x == IF d < 0 THEN 0 - (100 + s) * (n + d) ELSE (100 + s) * (n + d)
            y == IF d < 0 THEN 0 - 100 * d ELSE 100 * d
            v == tx.limit[1]
        IN  /\ tx.limit # None
            /\ IF x >= 0
               THEN y * v <= x /\ x < y * (v + 1)
               ELSE y * (v - 1) < x /\ x <= y * v

C11_Witness ==
    /\ pc = "done" /\ call.op = "make_trade_output" /\ version = 1
    /\ call.output_token = ETH_ADDRESS /\ call.qty = 3 /\ call.slippage = Some(50)
    /\ reserves.input_reserve_a = Read(call.input_token, "token", 2)
    /\ reserves.output_reserve_a = Read(call.input_token, "eth", 10)
    /\ tx.fn = "tokenToEthSwapOutput"
    /\ tx.limit = Some(2)

(* C12: on every exact-input path of make_trade the swap builder is invoked
   only if the caller's balance of the input asset is at least the quantity;
   otherwise the call fails with InsufficientBalance(balance, qty). *)
C12_ExactInputBalanceCheck ==
    (pc = "done" /\ call.op = "make_trade") =>
        /\ BuilderEntered =>
              /\ preflight.balance # None
              /\ preflight.balance[1] >= call.qty
        /\ (preflight.balance # None /\ preflight.balance[1] < call.qty) =>
              /\ result = InsufficientBalance(preflight.balance[1], call.qty)
              /\ tx = NoTx
        /\ result.kind = "InsufficientBalance" =>
              /\ preflight.balance # None
              /\ preflight.balance[1] < call.qty

C12_Witness ==
    /\ pc = "done" /\ call.op = "make_trade" /\ version = 1
    /\ call.input_token = ETH_ADDRESS /\ call.output_token = "A" /\ call.qty = 3
    /\ preflight = Balance(2)
    /\ result = InsufficientBalance(2, 3)
    /\ ~BuilderEntered

ValidationErrors == {"ExplicitFeeTierRequred", "InvalidFeeTier", "InvalidTokenArgument",
                     "InsufficientBalance", "UnsupportedUniSwapVersion"}

Submitted == \E i \in 1..Len(trace) : trace[i].ev \in {"estimate_gas", "send_raw_transaction"}

(* C13: a call of make_trade or make_trade_output that ends in a validation
   error has built and sent no transaction at any earlier step: the trace of
   the call holds no submission, no transaction exists and the nonce
   bookkeeping is as it was before the call. *)
C13_ValidationBeforeSubmission ==
    [][(pc = "idle" /\ pc' = "done"
          /\ call'.op \in {"make_trade", "make_trade_output"}
          /\ result'.kind \in ValidationErrors) =>
            /\ tx' = NoTx
            /\ last_nonce' = last_nonce
            /\ \A i \in 1..Len(trace') :
                  trace'[i].ev \notin {"estimate_gas", "send_raw_transaction"}]_vars

C13_Witness ==
    /\ pc = "done" /\ call.op = "make_trade_output"
    /\ call.input_token = "A" /\ call.output_token = ETH_ADDRESS
    /\ result.kind = "InsufficientBalance"
    /\ preflight.amount_in_max # None
    /\ Len(trace) > 0
    /\ ~Submitted
    /\ tx = NoTx

(* The functions of the V1 exchange that pay the sender of the transaction,
   and those that take the recipient as their last argument *)
SwapFunctions == {"ethToTokenSwapInput", "tokenToEthSwapInput", "tokenToTokenSwapInput",
                  "ethToTokenSwapOutput", "tokenToEthSwapOutput", "tokenToTokenSwapOutput"}

TransferFunctions == {"ethToTokenTransferInput", "tokenToEthTransferInput",
                      "tokenToTokenTransferInput", "ethToTokenTransferOutput",
                      "tokenToEthTransferOutput", "tokenToTokenTransferOutput"}

TradeOps == {"make_trade", "make_trade_output", "_token_to_token_swap_output"}

(* C14: when the caller names no recipient, the instruction built for the
   trade delivers the proceeds to the caller's own address on every V1 trade
   path: it is either a function that pays the sender, built without a
   recipient, or a function that takes a recipient, built with the caller's
   address. *)
C14_RecipientDefaultsToCaller ==
    (pc = "done" /\ version = 1 /\ call.op \in TradeOps /\ tx.fn # "none"
        /\ call.recipient = NoRecipient) =>
        \/ tx.fn \in SwapFunctions /\ tx.recipient = NoRecipient
        \/ tx.fn \in TransferFunctions /\ tx.recipient = address

C14_Witness ==
    /\ pc = "done" /\ version = 1 /\ call.op = "make_trade"
    /\ call.input_token = "A" /\ call.output_token = "B"
    /\ call.recipient = NoRecipient
    /\ tx.fn = "tokenToTokenTransferInput"
    /\ tx.recipient = address

InstructionOps == TradeOps \cup {"add_liquidity", "remove_liquidity"}

(* C15: every instruction constructed by a V1 swap builder, by add_liquidity
   or by remove_liquidity carries a deadline equal to the clock value at its
   construction plus 600 seconds. *)
C15_DeadlineTenMinutes ==
    (pc = "done" /\ version = 1 /\ call.op \in InstructionOps /\ tx.fn # "none") =>
        /\ tx.deadline = time + 600
        /\ \E i \in 1..Len(trace) : trace[i].ev = "time"

C15_Witness ==
    /\ pc = "done" /\ version = 1 /\ call.op = "add_liquidity"
    /\ time = 1
    /\ tx.fn = "addLiquidity"
    /\ tx.deadline = 601

TokenLookups == {"get_token", "_get_all_tokens"}

(* C16 as stated: an error raised by the transport or the oracle (a contract
   call, a submission) reaches the caller unchanged from every operation. *)
C16_ErrorsReachCallerUnchanged ==
    pc = "done" =>
        \A i \in 1..Len(trace) : trace[i].ev = "error" => result = Exc(trace[i].of)

(* C16 amended: an error raised by a contract call of a price getter or by the
   submission of a transaction reaches the caller unchanged; an error raised
   by the name, symbol or decimals call of get_token does not: get_token, and
   _get_all_tokens which calls it, raise InvalidToken in its place. *)
C16_ErrorsUnchangedButTokenLookup ==
    pc = "done" =>
        \A i \in 1..Len(trace) :
            trace[i].ev = "error" =>
                IF call.op \in TokenLookups
                THEN result = Exc("InvalidToken") /\ trace[i].of \in ContractErrors
                ELSE result = Exc(trace[i].of)

C16_Witness ==
    /\ pc = "done" /\ call.op = "_get_all_tokens" /\ call.qty = 2
    /\ trace[Len(trace)] = Ev("error", "ContractLogicError")
    /\ Len(trace) = 6
    /\ result = Exc("InvalidToken")

(* C17: on V1, make_trade_output between two distinct non-native tokens, with
   a valid fee tier and unless the balance is insufficient, is resolved as
   two legs bridged through the native asset and reaches the submission of
   the token-to-token swap instruction. *)
C17_V1TokenTokenExactOutputSubmits ==
    (pc = "done" /\ call.op = "make_trade_output" /\ version = 1 /\ fee.exc = ""
        /\ call.input_token \in Tokens /\ call.output_token \in Tokens
        /\ call.input_token # call.output_token
        /\ result.kind # "InsufficientBalance") =>
        /\ \E i \in 1..Len(trace) : trace[i] = Ev("call", "_token_to_token_swap_output")
        /\ Submitted
        /\ tx.fn \in {"tokenToTokenSwapOutput", "tokenToTokenTransferOutput"}

(* C18: the V1 two-hop exact-output calculation chains the single-leg
   exact-output formula twice, + 1 included in each leg: bridge =
   exactOutput(qty) on the output token's pool, max tokens sold =
   exactOutput(bridge) on the input token's pool (with the bridge taken
   either with its fraction or as a whole number), so the returned token
   input is not less than the uncorrected quotient. *)
C18_TwoHopBothLegsPlusOne ==
    (pc = "done" /\ call.op = "_calculate_max_input_token" /\ result.kind = "return"
        /\ call.input_token # call.output_token
        /\ call.qty < reserves.output_reserve_b[3]) =>
        LET nb == call.qty * reserves.input_reserve_b[3] * 1000
            db == (reserves.output_reserve_b[3] - call.qty) * 997
            bridge == <<nb + db, db>>
            whole == (nb \div db) + 1
            na == bridge[1] * reserves.input_reserve_a[3] * 1000
            da == (reserves.output_reserve_a[3] * bridge[2] - bridge[1]) * 997
            nw == whole * reserves.input_reserve_a[3] * 1000
            dw == (reserves.output_reserve_a[3] - whole) * 997
        IN  (da > 0 /\ dw > 0) =>
               /\ result.value \in {(na + da) \div da, (nw \div dw) + 1}
               /\ result.value * da >= na

(* C19: in a V1 token-to-token exact-input trade the quoted minimum output is
   the single-leg exact-input formula applied to the input token's pool
   (token reserve in, ETH reserve out) and then, with the first leg's
   truncated output as input, to the output token's pool (ETH reserve in,
   token reserve out). *)
C19_TwoHopExactInputPools ==
    (pc = "done" /\ call.op = "make_trade" /\ version = 1
        /\ tx.fn \in {"tokenToTokenSwapInput", "tokenToTokenTransferInput"}) =>
        /\ reserves.input_reserve_a[1] = call.input_token
        /\ reserves.input_reserve_a[2] = "token"
        /\ reserves.output_reserve_a[1] = call.input_token
        /\ reserves.output_reserve_a[2] = "eth"
        /\ reserves.input_reserve_b[1] = call.output_token
        /\ reserves.input_reserve_b[2] = "eth"
        /\ reserves.output_reserve_b[1] = call.output_token
        /\ reserves.output_reserve_b[2] = "token"
        /\ LET first == (call.qty * reserves.output_reserve_a[3] * 997)
                           \div (reserves.input_reserve_a[3] * 1000 + call.qty * 997)
               second == (first * reserves.output_reserve_b[3] * 997)
                            \div (reserves.input_reserve_b[3] * 1000 + first * 997)
           IN  tx.limit = Some(second)

PathClass(c) ==
    IF c.input_token = ETH_ADDRESS THEN "eth_token"
    ELSE IF c.output_token = ETH_ADDRESS THEN "token_eth" ELSE "token_token"

PathEntry ==
    [get_price_input |->
        [eth_token |-> "_get_eth_token_input_price",
         token_eth |-> "_get_token_eth_input_price",
         token_token |-> "_get_token_token_input_price"],
     get_price_output |->
        [eth_token |-> "_get_eth_token_output_price",
         token_eth |-> "_get_token_eth_output_price",
         token_token |-> "_get_token_token_output_price"],
     make_trade |->
        [eth_token |-> "_wrap_eth_to_token_swap_input",
         token_eth |-> "_wrap_token_to_eth_swap_input",
         token_token |-> "_wrap_token_to_token_swap_input"],
     make_trade_output |->
        [eth_token |-> "_get_eth_token_output_price",
         token_eth |-> "_wrap_token_to_eth_swap_output",
         token_token |-> "_wrap_token_to_token_swap_output"]]

PathNames ==
    [eth_token |-> {"_get_eth_token_input_price", "_get_eth_token_output_price",
                    "_wrap_eth_to_token_swap_input", "_wrap_eth_to_token_swap_output",
                    "_eth_to_token_swap_input", "_eth_to_token_swap_output"},
     token_eth |-> {"_get_token_eth_input_price", "_get_token_eth_output_price",
                    "_wrap_token_to_eth_swap_input", "_wrap_token_to_eth_swap_output",
                    "_token_to_eth_swap_input", "_token_to_eth_swap_output"},
     token_token |-> {"_get_token_token_input_price", "_get_token_token_output_price",
                      "_wrap_token_to_token_swap_input", "_wrap_token_to_token_swap_output",
                      "_token_to_token_swap_input", "_token_to_token_swap_output"}]

Calls == {i \in 1..Len(trace) : trace[i].ev = "call"}

(* C20: with a valid fee tier and two distinct tokens, each of the four
   dispatcher operations delegates to one code path, chosen only by which
   side is the native asset: ETH-to-token when the input is native,
   token-to-ETH when the output is native, token-to-token otherwise; the fee
   tier is resolved first, and nothing is delegated when it is rejected. *)
C20_DispatchByNativeSide ==
    (Returned /\ call.input_token # call.output_token) =>
        /\ fee = FeeTier_create(call.fee, version)
        /\ fee.exc # "" => Calls = {} /\ result = Exc(fee.exc)
        /\ fee.exc = "" =>
              /\ Calls # {}
              /\ \A i \in Calls :
                    /\ trace[i].of \in PathNames[PathClass(call)]
                    /\ (\A j \in Calls : i <= j) =>
                          trace[i].of = PathEntry[call.op][PathClass(call)]

C20_Witness ==
    /\ Returned /\ call.op = "get_price_output" /\ version = 3
    /\ call.input_token = "A" /\ call.output_token = ETH_ADDRESS
    /\ call.fee = Some(TIER_500)
    /\ trace = <<Ev("call", "_get_token_eth_output_price"), Ev("price", "A")>>
    /\ result.kind = "return"

ExactOutputFunctions ==
    {"ethToTokenSwapOutput", "ethToTokenTransferOutput",
     "tokenToEthSwapOutput", "tokenToEthTransferOutput",
     "tokenToTokenSwapOutput", "tokenToTokenTransferOutput"}

(* The input limit an exact-output instruction carries: the ETH value
   attached for ETH-to-token, max_tokens for token-to-ETH, max_tokens_sold
   for token-to-token. *)
InputLimit ==
    IF tx.fn \in {"ethToTokenSwapOutput", "ethToTokenTransferOutput"}
    THEN tx.value ELSE tx.limit[1]

(* C21: in a V1 exact-output trade the input limit placed in the instruction
   never exceeds the amount_in_max that the pre-flight check compared with
   the caller's balance, whatever the pool reports between the pre-flight
   quote and the construction of the instruction. *)
C21_InputLimitWithinValidated ==
    (pc = "done" /\ call.op = "make_trade_output" /\ version = 1
        /\ tx.fn \in ExactOutputFunctions) =>
        /\ preflight.amount_in_max # None
        /\ InputLimit <= preflight.amount_in_max[1]

(* C22: across the submission attempts one client makes one after another,
   the nonce of each transaction handed to send_raw_transaction is strictly
   greater than the nonce of the previous one, whether that send returned or
   raised and whatever transaction count the chain reports in between; and
   last_nonce never decreases. *)
C22_NoncesStrictlyIncrease ==
    [][/\ last_nonce' >= last_nonce
       /\ (Len(sends') > Len(sends) /\ Len(sends) > 0) =>
             sends'[Len(sends')].nonce > sends[Len(sends)].nonce]_vars

C22_Witness ==
    /\ Len(sends) = 2
    /\ ~sends[1].ok
    /\ sends[2].nonce = sends[1].nonce + 1
    /\ last_nonce = sends[2].nonce + 1
    /\ \E r \in Requests : inflight[r].pc = "returned"

(* C23: when two trade requests on the same client interleave, no two
   transactions sent carry the same nonce, and once both requests are over
   last_nonce is greater than every nonce used. *)
C23_InterleavedNoncesDistinct ==
    /\ \A i, j \in 1..Len(sends) : i # j => sends[i].nonce # sends[j].nonce
    /\ (\A r \in Requests : inflight[r].pc \in Over \cup {"idle"}) =>
          \A i \in 1..Len(sends) : last_nonce > sends[i].nonce

(* C24: in a V1 token-to-token exact-input trade the minimum-ETH-bought bound
   of the instruction is not greater than the intermediate ETH amount the
   same quote computed for its first leg (numeratorA / denominatorA), so that
   a trade executed at the quoted reserves meets its own minimum. *)
C24_MinEthWithinFirstLeg ==
    (pc = "done" /\ call.op = "make_trade" /\ version = 1
        /\ tx.fn \in {"tokenToTokenSwapInput", "tokenToTokenTransferInput"}) =>
        LET numeratorA == call.qty * reserves.output_reserve_a[3] * 997
            denominatorA == reserves.input_reserve_a[3] * 1000 + call.qty * 997
        IN  tx.eth_limit[1] * denominatorA <= numeratorA

====
